---- MODULE Spec2Model ----
(***************************************************************************)
(* Model of car_maintenance_tracker.py: the TrackerStore (one JSON         *)
(* document loaded whole and saved whole), its command-line boundary and   *)
(* several invocations sharing one storage location.                       *)
(*                                                                         *)
(* Text that the code inspects character by character (part names, dates,  *)
(* numeric command-line arguments, the numbers of the JSON document) is a  *)
(* tuple of one-character strings; text the code only stores (notes,       *)
(* title, details) is an atomic string.  A cost (a Python float) is a      *)
(* decimal held in hundredths.                                             *)
(***************************************************************************)
EXTENDS Integers, Sequences, FiniteSets, TLC

VARIABLES
    disk,     \* the file at db_path: [exists, content], content a token sequence
    data,     \* TrackerStore.data of the store object in use
    pc,       \* "ready", or "raised" once an exception has left the store
    last,     \* the last call made: [op, arg, status, ret, before, file]
    fs,       \* the file shared by the concurrent invocations
    ppc,      \* per invocation: "start", "loaded", "opened", "done", "error"
    pdata,    \* per invocation: its TrackerStore.data
    pcmd,     \* per invocation: the command it runs
    saves     \* the saves of the concurrent invocations: [writer, active, raced]

vars == <<disk, data, pc, last, fs, ppc, pdata, pcmd, saves>>

-----------------------------------------------------------------------------
(* Characters and strings                                                  *)

UpperChars == <<"A","B","C","D","E","F","G","H","I","J","K","L","M",
                "N","O","P","Q","R","S","T","U","V","W","X","Y","Z">>
LowerChars == <<"a","b","c","d","e","f","g","h","i","j","k","l","m",
                "n","o","p","q","r","s","t","u","v","w","x","y","z">>
Whitespace == {" ", "\t", "\n"}
DigitChars == <<"0","1","2","3","4","5","6","7","8","9">>

IsDigit(c) == \E i \in 1..10 : DigitChars[i] = c
DigitVal(c) == (CHOOSE i \in 1..10 : DigitChars[i] = c) - 1

\* str.lower on one character
LowerChar(c) ==
    IF \E i \in 1..26 : UpperChars[i] = c
    THEN LowerChars[CHOOSE i \in 1..26 : UpperChars[i] = c]
    ELSE c

\* str.lower
Lower(s) == [i \in 1..Len(s) |-> LowerChar(s[i])]

\* str.strip: drops the leading and the trailing whitespace, keeps the inner
Strip(s) ==
    LET keep == {i \in 1..Len(s) : s[i] \notin Whitespace}
    IN  IF keep = {} THEN <<>>
        ELSE LET lo == CHOOSE i \in keep : \A j \in keep : i <= j
                 hi == CHOOSE i \in keep : \A j \in keep : j <= i
             IN  SubSeq(s, lo, hi)

\* name.strip().lower() of find_part
Normalize(name) == Lower(Strip(name))

\* ord() on the characters a date or a number is written with
Ord(c) ==
    IF IsDigit(c) THEN 48 + DigitVal(c)
    ELSE IF c = "-" THEN 45
    ELSE IF c = "." THEN 46
    ELSE 0

\* s < t for Python strings: the first differing character decides, a proper
\* prefix is smaller
RECURSIVE StrLess(_, _)
StrLess(s, t) ==
    IF t = <<>> THEN FALSE
    ELSE IF s = <<>> THEN TRUE
    ELSE IF Ord(Head(s)) # Ord(Head(t)) THEN Ord(Head(s)) < Ord(Head(t))
    ELSE StrLess(Tail(s), Tail(t))

\* list.sort(key=..., reverse=...): a stable sort; before[i][j] says the key
\* of s[i] sorts strictly before the key of s[j]
StableSort(s, before) ==
    LET ins(sorted, x) ==
            LET p == Cardinality({k \in 1..Len(sorted) : ~before[x][sorted[k]]})
            IN  SubSeq(sorted, 1, p) \o <<x>> \o SubSeq(sorted, p + 1, Len(sorted))
        f[i \in 0..Len(s)] == IF i = 0 THEN <<>> ELSE ins(f[i - 1], i)
    IN  [k \in 1..Len(s) |-> s[f[Len(s)][k]]]

-----------------------------------------------------------------------------
(* Numbers as text                                                         *)

\* int.__repr__ of json.dump
RECURSIVE IntToDigits(_)
IntToDigits(n) ==
    IF n < 0 THEN <<"-">> \o IntToDigits(0 - n)
    ELSE IF n < 10 THEN <<DigitChars[n + 1]>>
    ELSE IntToDigits(n \div 10) \o <<DigitChars[(n % 10) + 1]>>

RECURSIVE DigitsToNat(_)
DigitsToNat(s) ==
    IF s = <<>> THEN 0
    ELSE 10 * DigitsToNat(SubSeq(s, 1, Len(s) - 1)) + DigitVal(s[Len(s)])

AllDigits(s) == s # <<>> /\ \A i \in 1..Len(s) : IsDigit(s[i])

\* whether int(value) accepts the text: an optional sign, then digits
IsIntText(s) ==
    /\ s # <<>>
    /\ IF Head(s) \in {"-", "+"} THEN AllDigits(Tail(s)) ELSE AllDigits(s)

\* int(value)
ParseInt(s) ==
    IF Head(s) = "-" THEN 0 - DigitsToNat(Tail(s))
    ELSE IF Head(s) = "+" THEN DigitsToNat(Tail(s))
    ELSE DigitsToNat(s)

\* a float written with one digit after the point
FloatReprOneDigit(c) ==
    LET a == IF c < 0 THEN 0 - c ELSE c
    IN  (IF c < 0 THEN <<"-">> ELSE <<>>)
        \o IntToDigits(a \div 100) \o <<".", DigitChars[((a % 100) \div 10) + 1]>>

\* float.__repr__ of json.dump, for a value held in hundredths
FloatRepr(c) ==
    LET a == IF c < 0 THEN 0 - c ELSE c
        frac == a % 100
    IN  (IF c < 0 THEN <<"-">> ELSE <<>>)
        \o IntToDigits(a \div 100) \o <<".">>
        \o (IF frac % 10 = 0 THEN <<DigitChars[(frac \div 10) + 1]>>
            ELSE <<DigitChars[(frac \div 10) + 1], DigitChars[(frac % 10) + 1]>>)

\* whether float(value) accepts the text: an optional sign, digits, and an
\* optional point with one or two digits after it
IsFloatText(s) ==
    /\ s # <<>>
    /\ LET u == IF Head(s) \in {"-", "+"} THEN Tail(s) ELSE s
           dots == {i \in 1..Len(u) : u[i] = "."}
       IN  \/ AllDigits(u)
           \/ /\ Cardinality(dots) = 1
              /\ LET d == CHOOSE i \in dots : TRUE
                 IN  /\ AllDigits(SubSeq(u, 1, d - 1))
                     /\ AllDigits(SubSeq(u, d + 1, Len(u)))
                     /\ Len(u) - d <= 2

\* float(value), in hundredths
ParseFloat(s) ==
    LET neg == Head(s) = "-"
        u == IF Head(s) \in {"-", "+"} THEN Tail(s) ELSE s
        dots == {i \in 1..Len(u) : u[i] = "."}
        d == IF dots = {} THEN Len(u) + 1 ELSE CHOOSE i \in dots : TRUE
        whole == DigitsToNat(SubSeq(u, 1, d - 1))
        fr == SubSeq(u, d + 1, Len(u))
        cents == IF Len(fr) = 0 THEN 0
                 ELSE IF Len(fr) = 1 THEN 10 * DigitVal(fr[1])
                 ELSE 10 * DigitVal(fr[1]) + DigitVal(fr[2])
        a == 100 * whole + cents
    IN  IF neg THEN 0 - a ELSE a

-----------------------------------------------------------------------------
(* The store's state and the JSON document                                 *)

\* the default of _load when no file exists
EmptyState == [current_mileage_km |-> 0, parts |-> <<>>, service_history |-> <<>>]

\* dataclasses.asdict(ConsumablePart(...))
ConsumablePart(name, interval_km, last_change_km, notes) ==
    [name |-> name, interval_km |-> interval_km,
     last_change_km |-> last_change_km, notes |-> notes]

\* dataclasses.asdict(ServiceRecord(...))
ServiceRecord(date, mileage_km, title, details, cost) ==
    [date |-> date, mileage_km |-> mileage_km, title |-> title,
     details |-> details, cost |-> cost]

None == <<>>
Some(v) == <<v>>

LBrace == <<"{">>
RBrace == <<"}">>
LBracket == <<"[">>
RBracket == <<"]">>
Key(k) == <<"key", k>>
StrTok(s) == <<"str", s>>
CharsTok(cs) == <<"chars">> \o cs
IntTok(n) == <<"int">> \o IntToDigits(n)
FloatTok(c) == <<"float">> \o FloatRepr(c)

PartWidth == 10
RecordWidth == 12

PartTokens(p) ==
    <<LBrace, Key("name"), CharsTok(p.name),
      Key("interval_km"), IntTok(p.interval_km),
      Key("last_change_km"), IntTok(p.last_change_km),
      Key("notes"), StrTok(p.notes), RBrace>>

RecordTokens(r) ==
    <<LBrace, Key("date"), CharsTok(r.date),
      Key("mileage_km"), IntTok(r.mileage_km),
      Key("title"), StrTok(r.title),
      Key("details"), StrTok(r.details),
      Key("cost"), FloatTok(r.cost), RBrace>>

\* the tokens of the list of parts, in the list's order
PartsTokens(s) ==
    LET f[i \in 0..Len(s)] == IF i = 0 THEN <<>> ELSE f[i - 1] \o PartTokens(s[i])
    IN  f[Len(s)]

\* the tokens of the list of records, in the list's order
RecordsTokens(s) ==
    LET f[i \in 0..Len(s)] == IF i = 0 THEN <<>> ELSE f[i - 1] \o RecordTokens(s[i])
    IN  f[Len(s)]

\* json.dump(self.data, f): the keys in the dict's order, the lists in order
JsonDump(d) ==
    <<LBrace, Key("current_mileage_km"), IntTok(d.current_mileage_km),
      Key("parts"), LBracket>>
    \o PartsTokens(d.parts)
    \o <<RBracket, Key("service_history"), LBracket>>
    \o RecordsTokens(d.service_history)
    \o <<RBracket, RBrace>>

IsIntTok(t) == Head(t) = "int" /\ IsIntText(Tail(t))
IsFloatTok(t) == Head(t) = "float" /\ IsFloatText(Tail(t))

\* the objects that start at token i, each `width` tokens long
RECURSIVE CountObjects(_, _, _)
CountObjects(t, i, width) ==
    IF i <= Len(t) /\ t[i] = LBrace
    THEN 1 + CountObjects(t, i + width, width)
    ELSE 0

WellFormedPartAt(t, i) ==
    /\ t[i] = LBrace
    /\ t[i + 1] = Key("name") /\ Head(t[i + 2]) = "chars"
    /\ t[i + 3] = Key("interval_km") /\ IsIntTok(t[i + 4])
    /\ t[i + 5] = Key("last_change_km") /\ IsIntTok(t[i + 6])
    /\ t[i + 7] = Key("notes") /\ Head(t[i + 8]) = "str"
    /\ t[i + 9] = RBrace

PartAt(t, i) ==
    [name |-> Tail(t[i + 2]),
     interval_km |-> ParseInt(Tail(t[i + 4])),
     last_change_km |-> ParseInt(Tail(t[i + 6])),
     notes |-> t[i + 8][2]]

WellFormedRecordAt(t, i) ==
    /\ t[i] = LBrace
    /\ t[i + 1] = Key("date") /\ Head(t[i + 2]) = "chars"
    /\ t[i + 3] = Key("mileage_km") /\ IsIntTok(t[i + 4])
    /\ t[i + 5] = Key("title") /\ Head(t[i + 6]) = "str"
    /\ t[i + 7] = Key("details") /\ Head(t[i + 8]) = "str"
    /\ t[i + 9] = Key("cost") /\ IsFloatTok(t[i + 10])
    /\ t[i + 11] = RBrace

RecordAt(t, i) ==
    [date |-> Tail(t[i + 2]),
     mileage_km |-> ParseInt(Tail(t[i + 4])),
     title |-> t[i + 6][2],
     details |-> t[i + 8][2],
     cost |-> ParseFloat(Tail(t[i + 10]))]

\* json.load(f) on a document of this program: [ok, value]; ok is FALSE where
\* json.load raises JSONDecodeError (an empty or cut file, text after the
\* document's closing brace)
JsonLoad(t) ==
    LET np == CountObjects(t, 6, PartWidth)
        j == 6 + PartWidth * np
        nr == CountObjects(t, j + 3, RecordWidth)
        k == j + 3 + RecordWidth * nr
        ok == /\ Len(t) = k + 1
              /\ t[1] = LBrace
              /\ t[2] = Key("current_mileage_km") /\ IsIntTok(t[3])
              /\ t[4] = Key("parts") /\ t[5] = LBracket
              /\ \A n \in 0..(np - 1) : WellFormedPartAt(t, 6 + PartWidth * n)
              /\ t[j] = RBracket
              /\ t[j + 1] = Key("service_history") /\ t[j + 2] = LBracket
              /\ \A n \in 0..(nr - 1) : WellFormedRecordAt(t, j + 3 + RecordWidth * n)
              /\ t[k] = RBracket /\ t[k + 1] = RBrace
    IN  IF ok
        THEN [ok |-> TRUE,
              value |->
                [current_mileage_km |-> ParseInt(Tail(t[3])),
                 parts |-> [n \in 1..np |-> PartAt(t, 6 + PartWidth * (n - 1))],
                 service_history |->
                    [n \in 1..nr |-> RecordAt(t, j + 3 + RecordWidth * (n - 1))]]]
        ELSE [ok |-> FALSE, value |-> EmptyState]

NoFile == [exists |-> FALSE, content |-> <<>>]
FileOf(content) == [exists |-> TRUE, content |-> content]

\* TrackerStore._load: [ok, value]
_load(file) ==
    IF ~file.exists THEN [ok |-> TRUE, value |-> EmptyState]
    ELSE JsonLoad(file.content)

-----------------------------------------------------------------------------
(* TrackerStore: the operations on self.data                               *)

\* TrackerStore.current_mileage
current_mileage(d) == d.current_mileage_km

set_current_mileage(d, mileage_km) ==
    [d EXCEPT !.current_mileage_km = mileage_km]

\* find_part comparing the names as written
find_part_exact(d, name) ==
    LET hits == {i \in 1..Len(d.parts) : d.parts[i].name = name}
    IN  IF hits = {} THEN 0
        ELSE CHOOSE i \in hits : \A j \in hits : i <= j

\* the index in parts of the first part whose stripped, lowered name equals
\* the stripped, lowered argument; 0 is Python's None
find_part(d, name) ==
    LET lowered == Normalize(name)
        hits == {i \in 1..Len(d.parts) : Normalize(d.parts[i].name) = lowered}
    IN  IF hits = {} THEN 0
        ELSE CHOOSE i \in hits : \A j \in hits : i <= j

\* dict.update: every key of `new` is set, every other key of `old` is kept
DictUpdate(old, new) ==
    [k \in DOMAIN old \cup DOMAIN new |-> IF k \in DOMAIN new THEN new[k] ELSE old[k]]

\* add_part keeping the stored notes when the new part has none
add_part_merging(d, part) ==
    LET existing == find_part(d, part.name)
    IN  IF existing # 0
        THEN [d EXCEPT !.parts[existing] =
                IF part.notes = "" THEN [part EXCEPT !.notes = d.parts[existing].notes] ELSE part]
        ELSE [d EXCEPT !.parts = Append(@, part)]

add_part(d, part) ==
    LET existing == find_part(d, part.name)
    IN  IF existing # 0
        THEN [d EXCEPT !.parts[existing] = DictUpdate(@, part)]
        ELSE [d EXCEPT !.parts = Append(@, part)]

\* change_part storing the notes argument even when it is empty
change_part_always_notes(d, i, mileage_km, notes) ==
    [d EXCEPT !.parts[i] = [@ EXCEPT !.last_change_km = mileage_km, !.notes = notes]]

\* the mutation of change_part when the part is found at index i
change_part(d, i, mileage_km, notes) ==
    LET changed == [d.parts[i] EXCEPT !.last_change_km = mileage_km]
    IN  [d EXCEPT !.parts[i] =
            IF notes # "" THEN [changed EXCEPT !.notes = notes] ELSE changed]

\* key(x) > key(y) for the key (mileage_km, date) of add_service_record
HistoryBefore(x, y) ==
    \/ x.mileage_km > y.mileage_km
    \/ x.mileage_km = y.mileage_km /\ StrLess(y.date, x.date)

\* sort(key=(mileage_km, date), reverse=True)
SortHistory(h) ==
    StableSort(h, [i \in 1..Len(h) |-> [j \in 1..Len(h) |-> HistoryBefore(h[i], h[j])]])

Reverse(s) == [i \in 1..Len(s) |-> s[Len(s) + 1 - i]]

\* add_service_record sorting ascending and reversing the result
add_service_record_reversed(d, record) ==
    [d EXCEPT !.service_history =
        LET h == Append(@, record)
        IN  Reverse(StableSort(h, [i \in 1..Len(h) |->
                                    [j \in 1..Len(h) |-> HistoryBefore(h[j], h[i])]]))]

add_service_record(d, record) ==
    [d EXCEPT !.service_history = SortHistory(Append(@, record))]

DueBefore(x, y) == x.remaining_km < y.remaining_km

\* sort(key=remaining_km)
SortDue(r) ==
    StableSort(r, [i \in 1..Len(r) |-> [j \in 1..Len(r) |-> DueBefore(r[i], r[j])]])

\* due_parts taking a reference of 0 for "no reference given"
due_parts_falsy_reference(d, at_mileage) ==
    LET current == IF at_mileage = None \/ at_mileage = Some(0)
                   THEN current_mileage(d) ELSE at_mileage[1]
        item(part) ==
            LET due_at == part.last_change_km + part.interval_km
                remaining == due_at - current
            IN  [name |-> part.name, interval_km |-> part.interval_km,
                 last_change_km |-> part.last_change_km, notes |-> part.notes,
                 due_at_km |-> due_at, remaining_km |-> remaining]
        results == [i \in 1..Len(d.parts) |-> item(d.parts[i])]
    IN  SortDue(results)

due_parts(d, at_mileage) ==
    LET current == IF at_mileage = None THEN current_mileage(d) ELSE at_mileage[1]
        item(part) ==
            LET due_at == part.last_change_km + part.interval_km
                remaining == due_at - current
            IN  [name |-> part.name, interval_km |-> part.interval_km,
                 last_change_km |-> part.last_change_km, notes |-> part.notes,
                 due_at_km |-> due_at, remaining_km |-> remaining]
        results == [i \in 1..Len(d.parts) |-> item(d.parts[i])]
    IN  SortDue(results)

\* TrackerStore.save under a storage fault: "none"; "open" (open() raises,
\* the file is untouched); "write" (open() has truncated the file and the
\* write raises with nothing or with half of the document written)
save(d, fault, file) ==
    LET doc == JsonDump(d)
    IN  CASE fault = "none" -> FileOf(doc)
          [] fault = "open" -> file
          [] fault = "write" -> FileOf(<<>>)
          [] fault = "write_half" -> FileOf(SubSeq(doc, 1, Len(doc) \div 2))

Faults == {"none", "open", "write", "write_half"}

-----------------------------------------------------------------------------
(* Inputs                                                                  *)

MaxHistory == 2

Oil == <<"O","i","l">>
PaddedOil == <<" ","o","i","l"," ">>
Brake == <<"B","r","a","k","e">>
LowerBrake == <<"b","r","a","k","e">>
Wiper == <<"w","i","p","e","r">>

PartInputs ==
    {ConsumablePart(Oil, 10000, 5000, ""),
     ConsumablePart(PaddedOil, 5000, 0, "synthetic"),
     ConsumablePart(Brake, 30000, 0, "front")}

ChangeInputs ==
    {<<Oil, 14000, "">>, <<LowerBrake, 30000, "rear">>, <<Wiper, 100, "">>}

Mileages == {0, 14000}

Jan01 == <<"2","0","2","4","-","0","1","-","0","1">>
Feb01 == <<"2","0","2","4","-","0","2","-","0","1">>

OilChange == ServiceRecord(Jan01, 10000, "oil change", "", 0)
Brakes == ServiceRecord(Jan01, 10000, "brakes", "front pads", 2550)
Tyres == ServiceRecord(Feb01, 10000, "tyres", "", 12005)
Inspection == ServiceRecord(Feb01, 5000, "inspection", "", 0)

RecordInputs == {OilChange, Tyres}

HistoryInputs == {OilChange, Brakes, Tyres, Inspection}

References == {None, Some(0), Some(40000)}

-----------------------------------------------------------------------------
(* One store object used by a caller, and new store objects on the file    *)

\* a call on a store whose data was `before`
CallOn(before, op, arg, status, ret) ==
    [op |-> op, arg |-> arg, status |-> status, ret |-> ret,
     before |-> before, file |-> disk]

Call(op, arg, status, ret) == CallOn(data, op, arg, status, ret)

conc == <<fs, ppc, pdata, pcmd, saves>>

\* the self.save() that ends a mutating operation, and what the caller sees
PersistOn(before, d, fault, op, arg, ret) ==
    /\ data' = d
    /\ disk' = save(d, fault, disk)
    /\ pc' = IF fault = "none" THEN "ready" ELSE "raised"
    /\ last' = CallOn(before, op, arg, IF fault = "none" THEN "ok" ELSE "OSError", ret)

Persist(d, fault, op, arg, ret) == PersistOn(data, d, fault, op, arg, ret)

SetCurrentMileage(km, fault) ==
    /\ pc = "ready"
    /\ Persist(set_current_mileage(data, km), fault, "set_current_mileage", km, None)
    /\ UNCHANGED conc

AddPart(part, fault) ==
    /\ pc = "ready"
    /\ Persist(add_part(data, part), fault, "add_part", part, None)
    /\ UNCHANGED conc

ChangePartFound(name, km, notes, fault) ==
    /\ pc = "ready"
    /\ find_part(data, name) # 0
    /\ Persist(change_part(data, find_part(data, name), km, notes), fault,
               "change_part", <<name, km, notes>>, fault = "none")
    /\ UNCHANGED conc

\* change_part saving before it looks the part up
ChangePartMissingSaves(name, km, notes) ==
    /\ pc = "ready"
    /\ find_part(data, name) = 0
    /\ last' = Call("change_part", <<name, km, notes>>, "ok", FALSE)
    /\ disk' = save(data, "none", disk)
    /\ UNCHANGED <<data, pc>>
    /\ UNCHANGED conc

ChangePartMissing(name, km, notes) ==
    /\ pc = "ready"
    /\ find_part(data, name) = 0
    /\ last' = Call("change_part", <<name, km, notes>>, "ok", FALSE)
    /\ UNCHANGED <<data, disk, pc>>
    /\ UNCHANGED conc

AddServiceRecord(record, fault) ==
    /\ pc = "ready"
    /\ Len(data.service_history) < MaxHistory
    /\ Persist(add_service_record(data, record), fault, "add_service_record", record, None)
    /\ UNCHANGED conc

DueParts(at_mileage) ==
    /\ pc = "ready"
    /\ last' = Call("due_parts", at_mileage, "ok", due_parts(data, at_mileage))
    /\ UNCHANGED <<data, disk, pc>>
    /\ UNCHANGED conc

\* TrackerStore(db_path) of a new invocation on the same file
NewStore ==
    /\ LET loaded == _load(disk)
       IN  IF loaded.ok
           THEN /\ data' = loaded.value
                /\ pc' = "ready"
                /\ last' = Call("load", None, "ok", None)
           ELSE /\ data' = data
                /\ pc' = "raised"
                /\ last' = Call("load", None, "JSONDecodeError", None)
    /\ UNCHANGED disk
    /\ UNCHANGED conc

NumProcs == 2

Procs == 1..NumProcs

Init ==
    /\ disk = NoFile
    /\ data = _load(NoFile).value
    /\ pc = "ready"
    /\ last = Call("init", None, "ok", None)
    /\ fs = NoFile
    /\ ppc = [p \in Procs |-> "start"]
    /\ pdata = [p \in Procs |-> EmptyState]
    /\ pcmd = [p \in Procs |-> None]
    /\ saves = [writer |-> 0, active |-> {}, raced |-> FALSE]

Next ==
    \/ \E km \in Mileages, fault \in Faults : SetCurrentMileage(km, fault)
    \/ \E part \in PartInputs, fault \in Faults : AddPart(part, fault)
    \/ \E c \in ChangeInputs, fault \in Faults : ChangePartFound(c[1], c[2], c[3], fault)
    \/ \E c \in ChangeInputs : ChangePartMissing(c[1], c[2], c[3])
    \/ \E record \in RecordInputs, fault \in Faults : AddServiceRecord(record, fault)
    \/ \E at_mileage \in References : DueParts(at_mileage)
    \/ NewStore

Spec == Init /\ [][Next]_vars

\* the service history alone, over more records
NextHistory ==
    \/ \E record \in HistoryInputs, fault \in Faults : AddServiceRecord(record, fault)
    \/ NewStore

SpecHistory == Init /\ [][NextHistory]_vars

-----------------------------------------------------------------------------
(* The command line: main() parses, constructs the store, runs one command *)

Parsed(value) == [ok |-> TRUE, value |-> value]
Rejected == [ok |-> FALSE, value |-> 0]

\* positive_int: int(value) raises on text that is no integer, and a
\* negative number raises ArgumentTypeError
positive_int(value) ==
    IF ~IsIntText(value) THEN Rejected
    ELSE LET number == ParseInt(value)
         IN  IF number < 0 THEN Rejected ELSE Parsed(number)

\* type=float of --cost
float_arg(value) ==
    IF ~IsFloatText(value) THEN Rejected ELSE Parsed(ParseFloat(value))

\* the fields of a date text, cut at "-"
DateFields(s) ==
    LET dash == {i \in 1..Len(s) : s[i] = "-"}
        d1 == CHOOSE i \in dash : \A j \in dash : i <= j
        d2 == CHOOSE i \in dash : \A j \in dash : j <= i
    IN  <<SubSeq(s, 1, d1 - 1), SubSeq(s, d1 + 1, d2 - 1), SubSeq(s, d2 + 1, Len(s))>>

\* whether datetime.strptime(value, "%Y-%m-%d") accepts the text: four
\* digits of year, one or two of month (1..12), one or two of day (1..31)
IsDateText(s) ==
    /\ Cardinality({i \in 1..Len(s) : s[i] = "-"}) = 2
    /\ LET f == DateFields(s)
       IN  /\ AllDigits(f[1]) /\ Len(f[1]) = 4
           /\ AllDigits(f[2]) /\ Len(f[2]) <= 2
           /\ AllDigits(f[3]) /\ Len(f[3]) <= 2
           /\ DigitsToNat(f[2]) \in 1..12
           /\ DigitsToNat(f[3]) \in 1..31

\* date_or_today: today's date when none is given; a given date is checked
\* and returned as written
date_or_today(value, today) ==
    IF value = None THEN Parsed(today)
    ELSE IF IsDateText(value[1]) THEN Parsed(value[1])
    ELSE Rejected

\* parse_args() ends the program on an argument its type callable rejects
UsageError(command, argv) ==
    /\ last' = Call(command, argv, "SystemExit", None)
    /\ UNCHANGED <<data, disk, pc>>

\* TrackerStore(args.db) raises on a file that is no JSON document
LoadError(command, argv) ==
    /\ last' = Call(command, argv, "JSONDecodeError", None)
    /\ pc' = "raised"
    /\ UNCHANGED <<data, disk>>

cmd_set_mileage(km, fault) ==
    LET k == positive_int(km)
        store == _load(disk)
    IN  /\ IF ~k.ok THEN UsageError("set-mileage", <<km>>)
           ELSE IF ~store.ok THEN LoadError("set-mileage", <<km>>)
           ELSE PersistOn(store.value, set_current_mileage(store.value, k.value),
                          fault, "set_current_mileage", k.value, None)
        /\ UNCHANGED conc

cmd_add_part(name, interval, last_change, notes, fault) ==
    LET i == positive_int(interval)
        l == positive_int(last_change)
        store == _load(disk)
        argv == <<name, interval, last_change, notes>>
        part == ConsumablePart(name, i.value, l.value, notes)
    IN  /\ IF ~i.ok \/ ~l.ok THEN UsageError("add-part", argv)
           ELSE IF ~store.ok THEN LoadError("add-part", argv)
           ELSE PersistOn(store.value, add_part(store.value, part),
                          fault, "add_part", part, None)
        /\ UNCHANGED conc

cmd_change_part(name, km, notes, fault) ==
    LET k == positive_int(km)
        store == _load(disk)
        argv == <<name, km, notes>>
        found == find_part(store.value, name)
    IN  /\ IF ~k.ok THEN UsageError("change-part", argv)
           ELSE IF ~store.ok THEN LoadError("change-part", argv)
           ELSE IF found = 0
           THEN /\ last' = CallOn(store.value, "change_part", <<name, k.value, notes>>, "ok", FALSE)
                /\ data' = store.value
                /\ pc' = "ready"
                /\ UNCHANGED disk
           ELSE PersistOn(store.value, change_part(store.value, found, k.value, notes),
                          fault, "change_part", <<name, k.value, notes>>, fault = "none")
        /\ UNCHANGED conc

cmd_due(at_km) ==
    LET k == IF at_km = None THEN Parsed(None) ELSE positive_int(at_km[1])
        store == _load(disk)
        at_mileage == IF at_km = None THEN None ELSE Some(k.value)
    IN  /\ IF ~k.ok THEN UsageError("due", at_km)
           ELSE IF ~store.ok THEN LoadError("due", at_km)
           ELSE /\ last' = CallOn(store.value, "due_parts", at_mileage, "ok",
                                  due_parts(store.value, at_mileage))
                /\ data' = store.value
                /\ pc' = "ready"
                /\ UNCHANGED disk
        /\ UNCHANGED conc

cmd_log_service(title, km, date, details, cost, today, fault) ==
    LET k == positive_int(km)
        c == float_arg(cost)
        store == _load(disk)
        argv == <<title, km, date, details, cost>>
        day == date_or_today(date, today)
        record == ServiceRecord(day.value, k.value, title, details, c.value)
    IN  /\ IF ~k.ok \/ ~c.ok THEN UsageError("log-service", argv)
           ELSE IF ~store.ok THEN LoadError("log-service", argv)
           ELSE IF ~day.ok
           THEN /\ last' = CallOn(store.value, "log-service", argv, "ValueError", None)
                /\ data' = store.value
                /\ pc' = "raised"
                /\ UNCHANGED disk
           ELSE /\ Len(store.value.service_history) < MaxHistory
                /\ PersistOn(store.value, add_service_record(store.value, record),
                             fault, "add_service_record", record, None)
        /\ UNCHANGED conc

cmd_history ==
    LET store == _load(disk)
    IN  /\ IF ~store.ok THEN LoadError("history", None)
           ELSE /\ last' = CallOn(store.value, "history", None, "ok",
                                  store.value.service_history)
                /\ data' = store.value
                /\ pc' = "ready"
                /\ UNCHANGED disk
        /\ UNCHANGED conc

Text14000 == <<"1","4","0","0","0">>
Text5000 == <<"5","0","0","0">>
TextMinus5 == <<"-","5">>
TextZero == <<"0">>
TextWord == <<"t","e","n">>
Text25p5 == <<"2","5",".","5">>
BadDate == <<"2","0","2","4","-","1","3","-","0","1">>

KmTexts == {Text14000, TextMinus5}
CostTexts == {Text25p5, TextMinus5}
DateArgs == {None, Some(BadDate)}
Todays == {Jan01}
CliFaults == {"none", "write"}

NextCLI ==
    \/ \E km \in KmTexts \cup {TextWord}, fault \in CliFaults : cmd_set_mileage(km, fault)
    \/ \E name \in {Oil, PaddedOil},
          numbers \in {<<Text5000, TextZero>>, <<TextMinus5, TextZero>>,
                       <<Text5000, TextMinus5>>} :
            cmd_add_part(name, numbers[1], numbers[2], "synthetic", "none")
    \/ \E km \in KmTexts : cmd_change_part(Oil, km, "", "none")
    \/ \E at_km \in {None, Some(TextMinus5)} : cmd_due(at_km)
    \/ \E km \in {Text5000, TextMinus5}, date \in DateArgs, cost \in CostTexts,
          today \in Todays :
            cmd_log_service("oil change", km, date, "", cost, today, "none")
    \/ cmd_history

SpecCLI == Init /\ [][NextCLI]_vars

-----------------------------------------------------------------------------
(* Several invocations of the program on one file.  save() is two steps:   *)
(* open(path, "w") truncates the file, and the document is written from    *)
(* offset 0 when the file is closed.  Nothing locks the file.              *)

store == <<disk, data, pc, last>>

Commands ==
    {<<"set-mileage", 14000>>,
     <<"add-part", ConsumablePart(Oil, 10000, 5000, "")>>,
     <<"add-part", ConsumablePart(Brake, 30000, 0, "front")>>}

\* the command's store operation on the data the invocation loaded
Apply(cmd, d) ==
    IF cmd[1] = "set-mileage" THEN set_current_mileage(d, cmd[2])
    ELSE add_part(d, cmd[2])

\* a write of `doc` at offset 0 of a file that holds `old`
WriteAtStart(old, doc) == doc \o SubSeq(old, Len(doc) + 1, Len(old))

\* main() up to TrackerStore(args.db): the invocation reads the file
ConcLoad(p, cmd) ==
    /\ ppc[p] = "start"
    /\ LET loaded == _load(fs)
       IN  /\ ppc' = [ppc EXCEPT ![p] = IF loaded.ok THEN "loaded" ELSE "error"]
           /\ pdata' = [pdata EXCEPT ![p] = loaded.value]
    /\ pcmd' = [pcmd EXCEPT ![p] = cmd]
    /\ saves' = [saves EXCEPT !.raced = @ \/ (fs.exists /\ saves.active # {})]
    /\ UNCHANGED fs
    /\ UNCHANGED store

\* open("w") without O_TRUNC
ConcOpenKeepsContent(p) ==
    /\ ppc[p] = "loaded"
    /\ pdata' = [pdata EXCEPT ![p] = Apply(pcmd[p], @)]
    /\ fs' = FileOf(fs.content)
    /\ ppc' = [ppc EXCEPT ![p] = "opened"]
    /\ saves' = [saves EXCEPT !.active = @ \cup {p},
                              !.raced = @ \/ saves.active # {}]
    /\ UNCHANGED pcmd
    /\ UNCHANGED store

\* the command's mutation of self.data, and the open("w") of save()
ConcOpen(p) ==
    /\ ppc[p] = "loaded"
    /\ pdata' = [pdata EXCEPT ![p] = Apply(pcmd[p], @)]
    /\ fs' = FileOf(<<>>)
    /\ ppc' = [ppc EXCEPT ![p] = "opened"]
    /\ saves' = [saves EXCEPT !.active = @ \cup {p},
                              !.raced = @ \/ saves.active # {}]
    /\ UNCHANGED pcmd
    /\ UNCHANGED store

\* json.dump and the close of save(): the document goes to offset 0
ConcWrite(p) ==
    /\ ppc[p] = "opened"
    /\ fs' = FileOf(WriteAtStart(fs.content, JsonDump(pdata[p])))
    /\ ppc' = [ppc EXCEPT ![p] = "done"]
    /\ saves' = [saves EXCEPT !.active = @ \ {p}, !.writer = p]
    /\ UNCHANGED <<pdata, pcmd>>
    /\ UNCHANGED store

NextConc ==
    \/ \E p \in Procs, cmd \in Commands : ConcLoad(p, cmd)
    \/ \E p \in Procs : ConcOpen(p)
    \/ \E p \in Procs : ConcWrite(p)

SpecConc == Init /\ [][NextConc]_vars

-----------------------------------------------------------------------------
(* Properties of the store                                                 *)

MutatingOps == {"set_current_mileage", "add_part", "change_part", "add_service_record"}

\* the last call was a mutating operation that reached its save
Mutated ==
    /\ last.op \in MutatingOps
    /\ last.op = "change_part" => find_part(last.before, last.arg[1]) # 0

Returned(op) == last.op = op /\ last.status = "ok"

NormalizedNames(parts) == {Normalize(parts[i].name) : i \in 1..Len(parts)}

\* s without its element at position p
Without(s, p) == SubSeq(s, 1, p - 1) \o SubSeq(s, p + 1, Len(s))

\* C1: a mutating operation is either fully applied and persisted, or, when
\* its save fails, reports the error and leaves the in-memory state as it was
\* before the call.
C1_NoPartialFailure ==
    Mutated =>
        \/ last.status = "ok" /\ disk = FileOf(JsonDump(data))
        \/ last.status # "ok" /\ data = last.before

\* C2: from the empty store, parts never holds two entries whose names are
\* equal after stripping and lowering.
C2_UniqueNormalizedNames ==
    \A i, j \in 1..Len(data.parts) :
        i # j => Normalize(data.parts[i].name) # Normalize(data.parts[j].name)

\* an upsert has replaced a stored name by another spelling of it, beside
\* another part
C2_Witness ==
    /\ Returned("add_part")
    /\ Len(data.parts) = 2
    /\ \E i \in 1..Len(last.before.parts) :
        /\ last.before.parts[i].name # last.arg.name
        /\ Normalize(last.before.parts[i].name) = Normalize(last.arg.name)
        /\ data.parts[i].name = last.arg.name

\* the key (mileage_km, date) of x is greater than or equal to that of y
KeyAtLeast(x, y) ==
    \/ x.mileage_km > y.mileage_km
    \/ x.mileage_km = y.mileage_km /\ ~StrLess(x.date, y.date)

SameKey(x, y) == x.mileage_km = y.mileage_km /\ x.date = y.date

\* C3: after every add_service_record the history is sorted descending by
\* (mileage_km, date), is the previous history with the new record put in
\* (nothing lost, nothing duplicated, the older records in their order), and
\* the new record stands after the older records of the same key.
C3_HistorySorted ==
    LET h == data.service_history
    IN  /\ \A i, j \in 1..Len(h) : i < j => KeyAtLeast(h[i], h[j])
        /\ last.op = "add_service_record" =>
            \E p \in 1..Len(h) :
                /\ h[p] = last.arg
                /\ Without(h, p) = last.before.service_history
                /\ \A i \in (p + 1)..Len(h) : ~SameKey(h[i], last.arg)

\* a record was added behind an older record of the same key
C3_Witness ==
    LET h == data.service_history
    IN  /\ Returned("add_service_record")
        /\ Len(h) = 2
        /\ SameKey(h[1], h[2]) /\ h[1] # h[2]
        /\ h[2] = last.arg

\* C4: after a mutating operation returns, the file holds the in-memory
\* state, and loading it gives that state back: the same mileage, the same
\* parts and the same history, each in the same order.
C4_RoundTrip ==
    Mutated /\ last.status = "ok" =>
        /\ disk.exists
        /\ _load(disk).ok
        /\ _load(disk).value = data

\* a record with a fractional cost was saved beside two parts and a mileage
C4_Witness ==
    /\ Returned("add_service_record")
    /\ last.arg.cost % 100 # 0
    /\ Len(data.parts) = 2
    /\ data.current_mileage_km > 0

\* C5: change_part on a name no part has returns False and changes neither
\* the in-memory state nor the file.
C5_ChangeMissing ==
    (/\ last.op = "change_part"
     /\ Normalize(last.arg[1]) \notin NormalizedNames(last.before.parts)) =>
            /\ last.status = "ok"
            /\ last.ret = FALSE
            /\ data = last.before
            /\ disk = last.file

\* change_part named a part that a store holding two parts does not have
C5_Witness ==
    /\ last.op = "change_part"
    /\ Normalize(last.arg[1]) \notin NormalizedNames(last.before.parts)
    /\ Len(last.before.parts) = 2

\* C6: change_part on a part that exists (names compared stripped and
\* lowered) returns True, sets its last_change_km, keeps its notes when the
\* notes argument is empty and replaces them when it is not, and changes
\* nothing else: not the part's name or interval, no other part, not the
\* mileage, not the history.
C6_ChangeFound ==
    \A i \in 1..Len(last.before.parts) :
        (/\ last.op = "change_part"
         /\ Normalize(last.before.parts[i].name) = Normalize(last.arg[1])) =>
            LET old == last.before.parts[i]
                new == data.parts[i]
            IN  /\ last.status = "ok" => last.ret = TRUE
                /\ Len(data.parts) = Len(last.before.parts)
                /\ new.last_change_km = last.arg[2]
                /\ new.notes = IF last.arg[3] = "" THEN old.notes ELSE last.arg[3]
                /\ new.name = old.name /\ new.interval_km = old.interval_km
                /\ \A j \in 1..Len(data.parts) :
                    j # i => data.parts[j] = last.before.parts[j]
                /\ data.current_mileage_km = last.before.current_mileage_km
                /\ data.service_history = last.before.service_history

\* change_part with no notes on a part that has notes, named in another
\* spelling than the stored one
C6_Witness ==
    /\ Returned("change_part")
    /\ last.ret = TRUE
    /\ last.arg[3] = ""
    /\ \E i \in 1..Len(data.parts) :
        /\ Normalize(data.parts[i].name) = Normalize(last.arg[1])
        /\ data.parts[i].name # last.arg[1]
        /\ data.parts[i].notes # ""
        /\ data.parts[i].last_change_km # last.before.parts[i].last_change_km

\* C7: add_part on a name that exists (stripped and lowered) puts the new
\* part in the place of the old one, every field replaced, the length and
\* the other parts unchanged; on a new name it appends the part and leaves
\* the existing parts unchanged.
C7_Upsert ==
    last.op = "add_part" =>
        LET old == last.before.parts
            hits == {i \in 1..Len(old) : Normalize(old[i].name) = Normalize(last.arg.name)}
        IN  /\ hits # {} =>
                /\ Len(data.parts) = Len(old)
                /\ \A i \in 1..Len(old) :
                    data.parts[i] = IF i \in hits THEN last.arg ELSE old[i]
            /\ hits = {} => data.parts = Append(old, last.arg)
            /\ data.current_mileage_km = last.before.current_mileage_km
            /\ data.service_history = last.before.service_history

\* an upsert with no notes replaced the first of two parts, which had notes
C7_Witness ==
    /\ Returned("add_part")
    /\ Len(data.parts) = 2
    /\ Len(last.before.parts) = 2
    /\ data.parts[1] = last.arg
    /\ last.arg.notes = ""
    /\ last.before.parts[1].notes # ""
    /\ last.before.parts[1].name # last.arg.name

\* C8: due_parts returns one view per part, with due_at_km = last_change_km
\* + interval_km and remaining_km = due_at_km - reference, ascending by
\* remaining_km, the reference being the current mileage when none is given;
\* it changes neither the in-memory state nor the file.
C8_DueParts ==
    last.op = "due_parts" =>
        LET v == last.ret
            n == Len(data.parts)
            ref == IF last.arg = None THEN last.before.current_mileage_km
                   ELSE last.arg[1]
            ViewOf(part, view) ==
                /\ view.name = part.name /\ view.notes = part.notes
                /\ view.interval_km = part.interval_km
                /\ view.last_change_km = part.last_change_km
                /\ view.due_at_km = part.last_change_km + part.interval_km
                /\ view.remaining_km = part.last_change_km + part.interval_km - ref
        IN  /\ Len(v) = n
            /\ \E f \in [1..n -> 1..n] :
                /\ \A i, j \in 1..n : i # j => f[i] # f[j]
                /\ \A i \in 1..n : ViewOf(data.parts[f[i]], v[i])
            /\ \A i, j \in 1..n : i < j => v[i].remaining_km <= v[j].remaining_km
            /\ data = last.before
            /\ disk = last.file

\* a query with no reference put an overdue second part first
C8_Witness ==
    /\ last.op = "due_parts"
    /\ last.arg = None
    /\ Len(last.ret) = 2
    /\ last.ret[1].name = data.parts[2].name
    /\ last.ret[1].remaining_km < 0
    /\ data.current_mileage_km > 0

NonNegative(d) ==
    /\ d.current_mileage_km >= 0
    /\ \A i \in 1..Len(d.parts) :
        d.parts[i].interval_km >= 0 /\ d.parts[i].last_change_km >= 0
    /\ \A i \in 1..Len(d.service_history) :
        d.service_history[i].mileage_km >= 0 /\ d.service_history[i].cost >= 0

\* C9: every number that reaches the store through the command line is
\* non-negative: the mileage, every part's interval_km and last_change_km,
\* every record's mileage_km and cost.
C9_NonNegative == NonNegative(data)

\* the file holds the whole state of the invocation that saved last
HoldsLastWriter ==
    (saves.writer # 0 /\ saves.active = {}) =>
        fs = FileOf(JsonDump(pdata[saves.writer]))

\* C10, as claimed: invocations on one file are not coordinated, and in
\* every interleaving, once no save is in progress, the file holds the whole
\* state written by the last invocation to save.
C10_LastWriterWins == HoldsLastWriter

\* C10, amended: unless an invocation has read the file or opened it for
\* writing while another was between its open and the end of its write, no
\* invocation ends in an error and, once no save is in progress, the file
\* holds the whole state written by the last invocation to save.
C10_LastWriterWinsUnlessRaced ==
    ~saves.raced =>
        /\ \A p \in Procs : ppc[p] # "error"
        /\ HoldsLastWriter

\* both invocations loaded the empty store, the first added a part and
\* saved, the second set the mileage and saved after it: both are done, and
\* the file holds the second one's state, without the part
C10_Witness ==
    /\ ~saves.raced
    /\ ppc[1] = "done" /\ ppc[2] = "done"
    /\ saves.writer = 2
    /\ pdata[1].parts # <<>>
    /\ _load(fs).ok
    /\ _load(fs).value = pdata[2]
    /\ _load(fs).value.parts = <<>>

====
